---- MODULE Spec2Model ----
\* Sudoku generator of sudoku_puzzle/Sudoku.py: the constraint check is_safe,
\* the scan find_empty_cell, the recursive backtracking search fill_grid, and
\* create_puzzle / generate_sudoku that derive a puzzle from a solved grid.
\*
\* Python lists are references, so a grid is a tuple of row identities and
\* `heap` maps each row identity to the row's cells: two grids that share a row
\* share its cells. The recursion of fill_grid is an explicit stack of frames,
\* one per active call, each holding the call's locals.
EXTENDS Integers, Sequences, FiniteSets, TLC

\* ---------------------------------------------------------------- bounds
\* Side of a box. The program uses 3 (a 9x9 grid); the model is checked on the
\* 4x4 grid of 2x2 boxes, the smallest grid whose boxes differ from its rows.
Box == 2
\* How many outcomes of each random.shuffle call are explored.
NumOrders == 2
\* cells_to_remove ranges over -MaxOver .. N*N + MaxOver.
MaxOver == 1
\* Writes a caller makes to the returned puzzle.
MaxWrites == 1
\* Cells of a start grid handed directly to fill_grid that vary freely.
MaxFree == 4
\* Non-empty cells of a grid handed directly to is_safe.
MaxGivens == 2

\* States of the seeded generator.
RngPeriod == 8

\* Shuffles an interleaved invocation does while the observed call runs.
MaxOther == 2

\* Rows asked of CreateTelephonyData (num_rows ranges over 0..MaxRows).
MaxRows == 3
\* (end_date - start_date).days ranges over 0..MaxDays.
MaxDays == 1
\* fcr_rate ranges over k / FcrDen for k in 0..FcrDen.
FcrDen == 2
\* Times of day drawn: TimeSteps evenly spaced ones and the day's last second.
TimeSteps == 1

\* Moneyball: the balls are numbered 1..MaxBall (the lottery's own range is
\* larger); MaxBall - Balls >= 3 lets two draws share as few as three numbers.
MaxBall == 9
\* Moneyball: the results hold 0..MaxDraws draws.
MaxDraws == 2

\* ---------------------------------------------------------------- constants
N == Box * Box
\* list(range(1, N)): the last number is left out.
NUMBERS_short == [i \in 1..(N - 1) |-> i]

\* list(range(1, N + 1))
NUMBERS == [i \in 1..N |-> i]
Values == 0..N
Idx == 0..(N - 1)
Cells == Idx \X Idx
NoCell == <<-1, -1>>
NoGrid == <<>>

VARIABLES
    heap,            \* row identity -> row (column -> value)
    board,           \* generate_sudoku's board: tuple of row identities
    puzzle,          \* the grid create_puzzle returns, NoGrid before it is made
    all_coords,      \* create_puzzle's shuffled coordinate list
    cells_to_remove, \* the argument of generate_sudoku / create_puzzle
    removed,         \* iterations of create_puzzle's loop done so far
    fg_board,        \* the grid the running fill_grid was called on
    stack,           \* frames of the active fill_grid calls, innermost last
    mode,            \* "call" | "loop" | "ret" | "idle": position of the search
    result,          \* value returned by the call that returned last
    entry,           \* cells of the grid when the call that just returned began
    pc,              \* position of the caller of fill_grid
    writes,          \* writes made to the returned puzzle
    query,           \* <<row, col, num>> of a direct is_safe call
    rng,             \* state of the random module's hidden generator
    numbers,         \* contents of the module-level list NUMBERS
    seed,            \* the value the generator was seeded with
    run,             \* 1 for the first generate_sudoku call, 2 for the repeated one
    first,           \* <<solution, puzzle>> returned by the first call
    others,          \* shuffles done so far by another, interleaved invocation
    df,              \* the telephony data frame: a sequence of rows
    params,          \* the CreateTelephonyData instance's parameters
    results_df,      \* Moneyball: the draws, each the set of its six balls
    top_numbers,     \* Moneyball: the six most drawn numbers
    match_counts,    \* Moneyball: draws counted per tier name
    total_winnings,  \* Moneyball: the running total
    index            \* Moneyball: position of the running for loop

\* What a generate_sudoku call and a CreateTelephonyData instance leave alone.
calls == <<seed, run, first, others>>
telephony == <<df, params>>
lottery == <<results_df, top_numbers, match_counts, total_winnings, index>>

\* The Moneyball script has not run.
NoLottery ==
    /\ results_df = <<>>
    /\ top_numbers = {}
    /\ match_counts = <<>>
    /\ total_winnings = 0
    /\ index = 0

vars == <<heap, board, puzzle, all_coords, cells_to_remove, removed, fg_board,
          stack, mode, result, entry, pc, writes, query, rng, numbers, calls,
          telephony, lottery>>

\* ---------------------------------------------------------------- grids
\* board[row][col]
Cell(h, b, row, col) == h[b[row]][col]

\* The cells of a grid, by coordinate.
Grid(h, b) == [rc \in Cells |-> Cell(h, b, rc[1], rc[2])]

\* board[row][col] = v
SetCell(h, b, row, col, v) == [h EXCEPT ![b[row]][col] = v]

\* [[0 for _ in range(N)] for _ in range(N)]: N fresh rows of N zeros.
EmptyRows == [id \in 1..N |-> [c \in Idx |-> 0]]

\* ---------------------------------------------------------------- is_safe
\* is_safe without its column loop.
is_safe_no_col(h, b, row, col, num) ==
    IF \E j \in Idx : Cell(h, b, row, j) = num THEN FALSE
    ELSE LET start_row == row - (row % Box)
             start_col == col - (col % Box)
         IN  ~ \E i \in 0..(Box - 1) : \E j \in 0..(Box - 1) :
                   Cell(h, b, start_row + i, start_col + j) = num

\* is_safe without its box loop.
is_safe_no_box(h, b, row, col, num) ==
    IF \E j \in Idx : Cell(h, b, row, j) = num THEN FALSE
    ELSE ~ \E i \in Idx : Cell(h, b, i, col) = num

\* is_safe with the box origin taken as row % Box, col % Box.
is_safe_origin_mod(h, b, row, col, num) ==
    IF \E j \in Idx : Cell(h, b, row, j) = num THEN FALSE
    ELSE IF \E i \in Idx : Cell(h, b, i, col) = num THEN FALSE
    ELSE LET start_row == row % Box
             start_col == col % Box
         IN  ~ \E i \in 0..(Box - 1) : \E j \in 0..(Box - 1) :
                   Cell(h, b, start_row + i, start_col + j) = num

\* The row test, the column loop, the box loop, in the code's order.
is_safe(h, b, row, col, num) ==
    IF \E j \in Idx : Cell(h, b, row, j) = num THEN FALSE
    ELSE IF \E i \in Idx : Cell(h, b, i, col) = num THEN FALSE
    ELSE LET start_row == row - (row % Box)
             start_col == col - (col % Box)
         IN  ~ \E i \in 0..(Box - 1) : \E j \in 0..(Box - 1) :
                   Cell(h, b, start_row + i, start_col + j) = num

\* is_safe writes the tested number into the tested cell.
is_safe_board_written(h, b, row, col, num) == SetCell(h, b, row, col, num)

\* The board after is_safe has run: is_safe holds no assignment to a cell.
is_safe_board(h, b, row, col, num) == h

\* ---------------------------------------------------------------- find_empty_cell
\* The scan with its loops exchanged: columns outside, rows inside.
RECURSIVE ScanColumnsFrom(_, _, _)
ScanColumnsFrom(h, b, k) ==
    IF k = N * N THEN NoCell
    ELSE IF Cell(h, b, k % N, k \div N) = 0 THEN <<k % N, k \div N>>
    ELSE ScanColumnsFrom(h, b, k + 1)

find_empty_cell_by_column(h, b) == ScanColumnsFrom(h, b, 0)

\* Row-major scan: the first (i, j) with board[i][j] == 0, or (None, None).
RECURSIVE ScanFrom(_, _, _)
ScanFrom(h, b, k) ==
    IF k = N * N THEN NoCell
    ELSE IF Cell(h, b, k \div N, k % N) = 0 THEN <<k \div N, k % N>>
    ELSE ScanFrom(h, b, k + 1)

find_empty_cell(h, b) == ScanFrom(h, b, 0)

\* ---------------------------------------------------------------- random.shuffle
\* The k-th explored outcome of random.shuffle(lst), k in 1..NumOrders: a
\* permutation of lst (the leading Len - 1 elements rotated left by k - 1).
shuffle(lst, k) ==
    IF Len(lst) < 2 THEN lst
    ELSE [i \in 1..Len(lst) |->
            IF i = Len(lst) THEN lst[i]
            ELSE lst[((i - 1 + k - 1) % (Len(lst) - 1)) + 1]]

\* The generator of the random module is hidden state of the process: every
\* random.shuffle draws from it and advances it. Left unseeded it starts from
\* the operating system's entropy and any outcome can come next; seeded, it is
\* a deterministic machine, kept here as a counter of RngPeriod states.
Unseeded == -1

\* The outcomes the next random.shuffle can have.
Draws(g) ==
    IF g = Unseeded THEN 1..NumOrders
    ELSE {1 + ((g \div NumOrders) % NumOrders)}

\* The generator after one random.shuffle.
NextRng(g) == IF g = Unseeded THEN Unseeded ELSE (g + 1) % RngPeriod

\* numbers_to_try is NUMBERS itself: the shuffle reorders the module's list.
list_alias(module_list, shuffled) == shuffled

\* `numbers_to_try = list(NUMBERS)` is a new list, so NUMBERS stays as it was
\* when numbers_to_try is shuffled.
list_copy(module_list, shuffled) == module_list

\* ---------------------------------------------------------------- fill_grid
\* The for loop keeps its candidate: the iteration never advances.
AdvanceStuck(numbers_to_try) == numbers_to_try

\* The loop steps over the element after the one it took.
AdvanceSkipping(numbers_to_try) ==
    IF Len(numbers_to_try) < 2 THEN <<>> ELSE Tail(Tail(numbers_to_try))

\* `for num in numbers_to_try`: what is left to iterate after taking the head.
Advance(numbers_to_try) == Tail(numbers_to_try)

\* The retraction has its indices exchanged: board[col][row] = 0.
RetractSwapped(h, b, row, col) == SetCell(h, b, col, row, 0)

\* The failed placement is left on the board.
RetractForgotten(h, b, row, col) == h

\* board[row][col] = 0 after a failed recursive call.
Retract(h, b, row, col) == SetCell(h, b, row, col, 0)

\* The result of the recursive call is not looked at.
SucceededNever(returned) == FALSE

\* `if fill_grid(board):` the recursive call's result decides.
Succeeded(returned) == returned

Top == stack[Len(stack)]
Pop == SubSeq(stack, 1, Len(stack) - 1)

\* A call of fill_grid begins: find_empty_cell, the base case, the shuffle.
\* Besides its locals row, col and the rest of numbers_to_try, a frame records
\* the grid at its start, the candidates is_safe rejected, and the candidates
\* placed whose recursive call returned False.
fill_grid_call ==
    /\ mode = "call"
    /\ LET rc == find_empty_cell(heap, fg_board) IN
         IF rc = NoCell
         THEN /\ mode' = "ret"
              /\ result' = TRUE
              /\ entry' = Grid(heap, fg_board)
              /\ UNCHANGED <<stack, rng, numbers>>
         ELSE /\ \E k \in Draws(rng) :
                    /\ stack' = Append(stack, [row |-> rc[1], col |-> rc[2],
                                               numbers_to_try |-> shuffle(numbers, k),
                                               entry |-> Grid(heap, fg_board),
                                               rejected |-> {},
                                               failed |-> {}])
                    /\ numbers' = list_copy(numbers, shuffle(numbers, k))
              /\ rng' = NextRng(rng)
              /\ mode' = "loop"
              /\ UNCHANGED <<result, entry>>
    /\ UNCHANGED <<heap, board, puzzle, all_coords, cells_to_remove, removed,
                   fg_board, pc, writes, query, calls, telephony, lottery>>

\* One iteration of the for loop: the next candidate is tested and, if safe,
\* placed, and fill_grid is called recursively.
fill_grid_try ==
    /\ mode = "loop"
    /\ Top.numbers_to_try # <<>>
    /\ LET num == Head(Top.numbers_to_try) IN
         /\ stack' = [stack EXCEPT
                        ![Len(stack)].numbers_to_try = Advance(Top.numbers_to_try),
                        ![Len(stack)].rejected =
                            IF is_safe(heap, fg_board, Top.row, Top.col, num)
                            THEN @ ELSE @ \cup {num}]
         /\ IF is_safe(heap, fg_board, Top.row, Top.col, num)
            THEN /\ heap' = SetCell(is_safe_board(heap, fg_board, Top.row, Top.col, num),
                                    fg_board, Top.row, Top.col, num)
                 /\ mode' = "call"
            ELSE /\ heap' = is_safe_board(heap, fg_board, Top.row, Top.col, num)
                 /\ UNCHANGED mode
    /\ UNCHANGED <<board, puzzle, all_coords, cells_to_remove, removed,
                   fg_board, result, entry, pc, writes, query>>
    /\ UNCHANGED <<rng, numbers, calls, telephony, lottery>>

\* The for loop is exhausted: return False.
fill_grid_exhausted ==
    /\ mode = "loop"
    /\ Top.numbers_to_try = <<>>
    /\ stack' = Pop
    /\ mode' = "ret"
    /\ result' = FALSE
    /\ entry' = Top.entry
    /\ UNCHANGED <<heap, board, puzzle, all_coords, cells_to_remove, removed,
                   fg_board, pc, writes, query>>
    /\ UNCHANGED <<rng, numbers, calls, telephony, lottery>>

\* The recursive call returned to `if fill_grid(board)`: success is passed up,
\* failure retracts the placement and the loop goes on.
fill_grid_resume ==
    /\ mode = "ret"
    /\ stack # <<>>
    /\ IF Succeeded(result)
       THEN /\ stack' = Pop
            /\ entry' = Top.entry
            /\ UNCHANGED <<heap, mode>>
       ELSE /\ heap' = Retract(heap, fg_board, Top.row, Top.col)
            /\ mode' = "loop"
            /\ entry' = NoGrid
            /\ stack' = [stack EXCEPT ![Len(stack)].failed =
                            @ \cup {Cell(heap, fg_board, Top.row, Top.col)}]
    /\ UNCHANGED <<board, puzzle, all_coords, cells_to_remove, removed,
                   fg_board, result, pc, writes, query>>
    /\ UNCHANGED <<rng, numbers, calls, telephony, lottery>>

\* The outermost call has returned to its caller.
Returned == mode = "ret" /\ stack = <<>>

\* ---------------------------------------------------------------- create_puzzle
\* puzzle_board = solved_board: the puzzle is the solved grid itself.
aliascopy(h, b) == [heap |-> h, rows |-> b]

\* copy.deepcopy(solved_board): every row is copied to a fresh row.
deepcopy(h, b) ==
    LET used == Cardinality(DOMAIN h)
        rows == [r \in Idx |-> used + r + 1]
    IN  [heap |-> [id \in (DOMAIN h) \cup {used + r + 1 : r \in Idx} |->
                      IF id \in DOMAIN h THEN h[id] ELSE h[b[id - used - 1]]],
         rows |-> rows]

\* [(r, c) for r in range(N) for c in range(N)]
AllCoords == [k \in 1..(N * N) |-> <<(k - 1) \div N, (k - 1) % N>>]

\* The coordinate is read but stays in the list.
PeekRest(coords) == coords

\* all_coords.pop(): the list without its last element.
PopRest(coords) == SubSeq(coords, 1, Len(coords) - 1)

\* The loop runs once more than asked.
InRangeInclusive(i, n) == i <= n

\* The loop runs until the counter equals the request.
InRangeUntilEqual(i, n) == i # n

\* `for i in range(cells_to_remove)`: iteration i runs when i < cells_to_remove,
\* so a request below 1 runs none.
InRange(i, n) == i < n

\* The emptiness test is missing: the loop never breaks.
NeverBreak(coords) == FALSE

\* `if not all_coords: break`
BreakOnEmpty(coords) == coords = <<>>

\* The process outside the modelled call: the generator unseeded, NUMBERS as
\* the module defines it, no earlier call, no telephony frame.
ProcessStart ==
    /\ rng = Unseeded
    /\ numbers = NUMBERS
    /\ seed = Unseeded
    /\ run = 1
    /\ first = <<>>
    /\ others = 0
    /\ df = <<>>
    /\ params = <<>>
    /\ NoLottery

\* generate_sudoku discards fill_grid's result and calls create_puzzle, which
\* copies the board and shuffles the coordinates. The argument cells_to_remove
\* is first read here, so its value is drawn here.
\* The cells_to_remove argument: any integer of the explored range on a first
\* call, the same integer again on the repeated call.
Requested(r, n) ==
    IF r = 1 THEN (0 - MaxOver)..(N * N + MaxOver) ELSE {n}

create_puzzle_call ==
    /\ pc = "generate"
    /\ Returned
    /\ \E n \in Requested(run, cells_to_remove) : cells_to_remove' = n
    /\ \E k \in Draws(rng) : all_coords' = shuffle(AllCoords, k)
    /\ rng' = NextRng(rng)
    /\ LET cp == deepcopy(heap, board) IN
         /\ heap' = cp.heap
         /\ puzzle' = cp.rows
    /\ removed' = 0
    /\ mode' = "idle"
    /\ pc' = "create"
    /\ UNCHANGED <<board, fg_board, stack, result, entry, writes, query,
                   numbers, calls, telephony, lottery>>

\* One iteration of `for i in range(cells_to_remove)` that does not break:
\* all_coords.pop() and the cell is cleared. pop() on an empty list raises
\* IndexError, which nothing catches.
create_puzzle_remove ==
    /\ pc = "create"
    /\ InRange(removed, cells_to_remove)
    /\ ~ BreakOnEmpty(all_coords)
    /\ IF all_coords = <<>>
       THEN /\ pc' = "error"
            /\ UNCHANGED <<heap, all_coords, removed>>
       ELSE /\ LET rc == all_coords[Len(all_coords)] IN
                 heap' = SetCell(heap, puzzle, rc[1], rc[2], 0)
            /\ all_coords' = PopRest(all_coords)
            /\ removed' = removed + 1
            /\ UNCHANGED pc
    /\ UNCHANGED <<board, puzzle, cells_to_remove, fg_board, stack, mode,
                   result, entry, writes, query>>
    /\ UNCHANGED <<rng, numbers, calls, telephony, lottery>>

\* The loop ends (range exhausted, or break on an empty list) and
\* generate_sudoku returns (puzzle, board).
create_puzzle_return ==
    /\ pc = "create"
    /\ (~ InRange(removed, cells_to_remove) \/ BreakOnEmpty(all_coords))
    /\ pc' = "returned"
    /\ UNCHANGED <<heap, board, puzzle, all_coords, cells_to_remove, removed,
                   fg_board, stack, mode, result, entry, writes, query>>
    /\ UNCHANGED <<rng, numbers, calls, telephony, lottery>>

\* The caller of generate_sudoku writes a cell of the puzzle it was given.
puzzle_write ==
    /\ pc = "returned"
    /\ writes < MaxWrites
    /\ \E rc \in Cells : \E v \in Values :
            heap' = SetCell(heap, puzzle, rc[1], rc[2], v)
    /\ writes' = writes + 1
    /\ UNCHANGED <<board, puzzle, all_coords, cells_to_remove, removed,
                   fg_board, stack, mode, result, entry, pc, query>>
    /\ UNCHANGED <<rng, numbers, calls, telephony, lottery>>

\* generate_sudoku: board = [[0] * N ...]; fill_grid(board) is about to run.
Init ==
    /\ heap = EmptyRows
    /\ board = [r \in Idx |-> r + 1]
    /\ puzzle = NoGrid
    /\ all_coords = <<>>
    /\ cells_to_remove = 0
    /\ removed = 0
    /\ fg_board = [r \in Idx |-> r + 1]
    /\ stack = <<>>
    /\ mode = "call"
    /\ result = FALSE
    /\ entry = NoGrid
    /\ pc = "generate"
    /\ writes = 0
    /\ query = <<>>
    /\ ProcessStart

Next ==
    \/ fill_grid_call
    \/ fill_grid_try
    \/ fill_grid_exhausted
    \/ fill_grid_resume
    \/ create_puzzle_call
    \/ create_puzzle_remove
    \/ create_puzzle_return
    \/ puzzle_write

Spec == Init /\ [][Next]_vars

\* ---------------------------------------------------------------- fill_grid called directly
\* A solved grid of any box size, the grid most start grids are cut from.
Base == [rc \in Cells |->
            ((Box * (rc[1] % Box) + (rc[1] \div Box) + rc[2]) % N) + 1]

\* The last MaxFree cells in row-major order.
Window == {rc \in Cells : rc[1] * N + rc[2] >= N * N - MaxFree}

\* The grids fill_grid is started on: the all-EMPTY grid, and Base with any
\* values (EMPTY included) in the cells of Window, which gives complete,
\* partial, consistent, inconsistent and unsolvable grids.
StartGrids ==
    {[rc \in Cells |-> 0]} \cup
    {[rc \in Cells |-> IF rc \in Window THEN w[rc] ELSE Base[rc]] :
        w \in [Window -> Values]}

\* The rows of a grid given by its cells, as fresh rows 1..N.
RowsOf(g) == [id \in 1..N |-> [c \in Idx |-> g[<<id - 1, c>>]]]

InitFill ==
    /\ \E g \in StartGrids : heap = RowsOf(g)
    /\ board = [r \in Idx |-> r + 1]
    /\ puzzle = NoGrid
    /\ all_coords = <<>>
    /\ cells_to_remove = 0
    /\ removed = 0
    /\ fg_board = [r \in Idx |-> r + 1]
    /\ stack = <<>>
    /\ mode = "call"
    /\ result = FALSE
    /\ entry = NoGrid
    /\ pc = "fill"
    /\ writes = 0
    /\ query = <<>>
    /\ ProcessStart

\* The outermost fill_grid returns to a caller that keeps the result.
fill_grid_return ==
    /\ pc = "fill"
    /\ Returned
    /\ pc' = "done"
    /\ mode' = "idle"
    /\ UNCHANGED <<heap, board, puzzle, all_coords, cells_to_remove, removed,
                   fg_board, stack, result, entry, writes, query>>
    /\ UNCHANGED <<rng, numbers, calls, telephony, lottery>>

NextFill ==
    \/ fill_grid_call
    \/ fill_grid_try
    \/ fill_grid_exhausted
    \/ fill_grid_resume
    \/ fill_grid_return

SpecFill == InitFill /\ [][NextFill]_vars

\* A call that is running keeps running: Python executes the search to its end.
LiveFill == InitFill /\ [][NextFill]_vars /\ WF_vars(NextFill)

\* ---------------------------------------------------------------- the puzzle solved again
\* fill_grid is run on the puzzle generate_sudoku returned.
solve_call ==
    /\ pc = "returned"
    /\ writes = 0
    /\ fg_board' = puzzle
    /\ mode' = "call"
    /\ entry' = NoGrid
    /\ pc' = "solve"
    /\ UNCHANGED <<heap, board, puzzle, all_coords, cells_to_remove, removed,
                   stack, result, writes, query>>
    /\ UNCHANGED <<rng, numbers, calls, telephony, lottery>>

solve_return ==
    /\ pc = "solve"
    /\ Returned
    /\ pc' = "solved"
    /\ mode' = "idle"
    /\ UNCHANGED <<heap, board, puzzle, all_coords, cells_to_remove, removed,
                   fg_board, stack, result, entry, writes, query>>
    /\ UNCHANGED <<rng, numbers, calls, telephony, lottery>>

NextSolve ==
    \/ fill_grid_call
    \/ fill_grid_try
    \/ fill_grid_exhausted
    \/ fill_grid_resume
    \/ create_puzzle_call
    \/ create_puzzle_remove
    \/ create_puzzle_return
    \/ solve_call
    \/ solve_return

SpecSolve == Init /\ [][NextSolve]_vars

\* ---------------------------------------------------------------- is_safe called directly
\* Grids with at most k non-empty cells.
RECURSIVE Givens(_)
Givens(k) ==
    IF k = 0 THEN {[rc \in Cells |-> 0]}
    ELSE {[g EXCEPT ![rc] = v] : g \in Givens(k - 1), rc \in Cells, v \in Values}

InitSafe ==
    /\ \E g \in Givens(MaxGivens) : heap = RowsOf(g)
    /\ board = [r \in Idx |-> r + 1]
    /\ puzzle = NoGrid
    /\ all_coords = <<>>
    /\ cells_to_remove = 0
    /\ removed = 0
    /\ fg_board = [r \in Idx |-> r + 1]
    /\ stack = <<>>
    /\ mode = "idle"
    /\ result = FALSE
    /\ entry = NoGrid
    /\ pc = "safe"
    /\ writes = 0
    /\ query = <<>>
    /\ ProcessStart

is_safe_call ==
    /\ pc = "safe"
    /\ \E row \in Idx : \E col \in Idx : \E num \in 1..N :
         /\ query' = <<row, col, num>>
         /\ result' = is_safe(heap, board, row, col, num)
         /\ heap' = is_safe_board(heap, board, row, col, num)
    /\ pc' = "safe_done"
    /\ UNCHANGED <<board, puzzle, all_coords, cells_to_remove, removed,
                   fg_board, stack, mode, entry, writes>>
    /\ UNCHANGED <<rng, numbers, calls, telephony, lottery>>

NextSafe == is_safe_call

SpecSafe == InitSafe /\ [][NextSafe]_vars

\* ---------------------------------------------------------------- is_safe on a cleared cell
\* Complete valid grids: Base and its transpose under every renaming of the
\* values 1..N.
ValidGrids ==
    {[rc \in Cells |-> p[Base[rc]]] : p \in Permutations(1..N)} \cup
    {[rc \in Cells |-> p[Base[<<rc[2], rc[1]>>]]] : p \in Permutations(1..N)}

InitValid ==
    /\ \E g \in ValidGrids : heap = RowsOf(g) /\ entry = g
    /\ board = [r \in Idx |-> r + 1]
    /\ puzzle = NoGrid
    /\ all_coords = <<>>
    /\ cells_to_remove = 0
    /\ removed = 0
    /\ fg_board = [r \in Idx |-> r + 1]
    /\ stack = <<>>
    /\ mode = "idle"
    /\ result = FALSE
    /\ pc = "valid"
    /\ writes = 0
    /\ query = <<>>
    /\ ProcessStart

\* board[r][c] = EMPTY for a cell holding v; the query remembers r, c, v.
clear_cell ==
    /\ pc = "valid"
    /\ \E row \in Idx : \E col \in Idx :
         /\ query' = <<row, col, Cell(heap, board, row, col)>>
         /\ heap' = SetCell(heap, board, row, col, 0)
    /\ pc' = "cleared"
    /\ UNCHANGED <<board, puzzle, all_coords, cells_to_remove, removed,
                   fg_board, stack, mode, result, entry, writes>>
    /\ UNCHANGED <<rng, numbers, calls, telephony, lottery>>

\* is_safe(board, r, c, v) on the grid with the cell cleared.
is_safe_cleared ==
    /\ pc = "cleared"
    /\ result' = is_safe(heap, board, query[1], query[2], query[3])
    /\ heap' = is_safe_board(heap, board, query[1], query[2], query[3])
    /\ pc' = "checked"
    /\ UNCHANGED <<board, puzzle, all_coords, cells_to_remove, removed,
                   fg_board, stack, mode, entry, writes, query>>
    /\ UNCHANGED <<rng, numbers, calls, telephony, lottery>>

\* board[r][c] = v again.
restore_cell ==
    /\ pc = "checked"
    /\ heap' = SetCell(heap, board, query[1], query[2], query[3])
    /\ pc' = "restored"
    /\ UNCHANGED <<board, puzzle, all_coords, cells_to_remove, removed,
                   fg_board, stack, mode, result, entry, writes, query>>
    /\ UNCHANGED <<rng, numbers, calls, telephony, lottery>>

NextValid == clear_cell \/ is_safe_cleared \/ restore_cell

SpecValid == InitValid /\ [][NextValid]_vars

\* ---------------------------------------------------------------- generate_sudoku under a seed
\* random.seed(s) for a seed s, then generate_sudoku as in Init.
InitSeeded ==
    /\ heap = EmptyRows
    /\ board = [r \in Idx |-> r + 1]
    /\ puzzle = NoGrid
    /\ all_coords = <<>>
    /\ cells_to_remove = 0
    /\ removed = 0
    /\ fg_board = [r \in Idx |-> r + 1]
    /\ stack = <<>>
    /\ mode = "call"
    /\ result = FALSE
    /\ entry = NoGrid
    /\ pc = "generate"
    /\ writes = 0
    /\ query = <<>>
    /\ seed \in 0..(RngPeriod - 1)
    /\ rng = seed
    /\ numbers = NUMBERS
    /\ run = 1
    /\ first = <<>>
    /\ others = 0
    /\ df = <<>>
    /\ params = <<>>
    /\ NoLottery

\* The first call has returned; random.seed(s) with the same s and
\* generate_sudoku with the same cells_to_remove, on a new board. The module,
\* and with it NUMBERS, is the one the first call ran in.
generate_sudoku_again ==
    /\ pc = "returned"
    /\ run = 1
    /\ first' = <<Grid(heap, board), Grid(heap, puzzle)>>
    /\ run' = 2
    /\ rng' = seed
    /\ heap' = EmptyRows
    /\ board' = [r \in Idx |-> r + 1]
    /\ puzzle' = NoGrid
    /\ all_coords' = <<>>
    /\ removed' = 0
    /\ fg_board' = [r \in Idx |-> r + 1]
    /\ stack' = <<>>
    /\ mode' = "call"
    /\ result' = FALSE
    /\ entry' = NoGrid
    /\ pc' = "generate"
    /\ UNCHANGED <<cells_to_remove, writes, query, numbers, seed, others,
                   telephony, lottery>>

NextSeeded ==
    \/ fill_grid_call
    \/ fill_grid_try
    \/ fill_grid_exhausted
    \/ fill_grid_resume
    \/ create_puzzle_call
    \/ create_puzzle_remove
    \/ create_puzzle_return
    \/ generate_sudoku_again

SpecSeeded == InitSeeded /\ [][NextSeeded]_vars

\* Another generate_sudoku invocation, interleaved with the repeated call,
\* reaches one of its random.shuffle calls (fill_grid's or create_puzzle's):
\* the shuffle draws from the one generator of the module. The other
\* invocation's board and lists are its own locals.
other_shuffle ==
    /\ run = 2
    /\ pc \in {"generate", "create"}
    /\ others < MaxOther
    /\ rng' = NextRng(rng)
    /\ others' = others + 1
    /\ UNCHANGED <<heap, board, puzzle, all_coords, cells_to_remove, removed,
                   fg_board, stack, mode, result, entry, pc, writes, query,
                   numbers, seed, run, first, telephony, lottery>>

NextConcurrent ==
    \/ fill_grid_call
    \/ fill_grid_try
    \/ fill_grid_exhausted
    \/ fill_grid_resume
    \/ create_puzzle_call
    \/ create_puzzle_remove
    \/ create_puzzle_return
    \/ generate_sudoku_again
    \/ other_shuffle

SpecConcurrent == InitSeeded /\ [][NextConcurrent]_vars

\* ---------------------------------------------------------------- CreateTelephonyData
\* Seconds of a day: datetime.combine and .dt.date / .dt.time split an instant
\* into the day and the second of the day.
DayLen == 86400
\* rng.integers(0, 601): TimeInQueue
QueueHigh == 601
\* rng.integers(30, 3000): TalkTime
TalkLow == 30
TalkHigh == 3000
\* rng.integers(0, 500): HoldTime
HoldHigh == 500
\* rng.integers(5, 2000): WrapTime
WrapLow == 5
WrapHigh == 2000

\* Everything of the Sudoku program but pc: a telephony step leaves it alone.
sudoku == <<heap, board, puzzle, all_coords, cells_to_remove, removed, fg_board,
            stack, mode, result, entry, writes, query, rng, numbers, calls>>

\* rng.integers(low, high) draws from low..high-1; the two ends are explored.
integers(low, high) == {low, high - 1}

\* fake.time_object(): a second of the day.
time_objects == {(k * DayLen) \div TimeSteps : k \in 0..(TimeSteps - 1)} \cup {DayLen - 1}

\* A new instance: num_rows, fcr_rate = fcr / FcrDen, and the number of days
\* from start_date to end_date; instants are seconds since start_date's day began.
InitTelephony ==
    /\ heap = EmptyRows
    /\ board = [r \in Idx |-> r + 1]
    /\ puzzle = NoGrid
    /\ all_coords = <<>>
    /\ cells_to_remove = 0
    /\ removed = 0
    /\ fg_board = [r \in Idx |-> r + 1]
    /\ stack = <<>>
    /\ mode = "idle"
    /\ result = FALSE
    /\ entry = NoGrid
    /\ writes = 0
    /\ query = <<>>
    /\ rng = Unseeded
    /\ numbers = NUMBERS
    /\ seed = Unseeded
    /\ run = 1
    /\ first = <<>>
    /\ others = 0
    /\ pc = "ids"
    /\ df = <<>>
    /\ NoLottery
    /\ \E n \in 0..MaxRows : \E f \in 0..FcrDen : \E d \in 0..MaxDays :
         params = [num_rows |-> n, fcr |-> f, date_range_days |-> d]

\* int(num_rows * fcr_rate)
num_single_call == (params.num_rows * params.fcr) \div FcrDen

\* The rows left over are not halved.
num_multi_call_conv_not_halved == params.num_rows - num_single_call

\* (num_rows - num_single_call) // 2
num_multi_call_conv == (params.num_rows - num_single_call) \div 2

\* single_call_ids + multi_call_ids, the latter being its ids listed twice.
\* A uuid4 is a fresh value; the i-th one generated is written i.
all_ids ==
    [i \in 1..(num_single_call + 2 * num_multi_call_conv) |->
        IF i <= num_single_call THEN i
        ELSE num_single_call + 1 + ((i - num_single_call - 1) % num_multi_call_conv)]

\* The ConversationID pandas gives a row that had none: NaN.
NaN == -1

\* lst[:n]
Prefix(lst, n) == SubSeq(lst, 1, IF n < Len(lst) THEN n ELSE Len(lst))

\* self.df['ConversationID'] = all_ids[:num_rows] on the empty frame: the
\* frame gets one row per id.
generate_conversation_ids ==
    /\ pc = "ids"
    /\ df' = [i \in 1..Len(Prefix(all_ids, params.num_rows)) |->
                [ConversationID |-> all_ids[i]]]
    /\ pc' = "dates"
    /\ UNCHANGED <<params, sudoku, lottery>>

\* CallDate = start_date.date() + rng.integers(0, date_range_days + 1) days,
\* CallTime = datetime.combine(CallDate, fake.time_object()). The lists have
\* num_rows entries. On a frame that has rows, but not num_rows of them, the
\* column assignment raises ValueError and generate_data ends there. On a
\* frame without rows pandas takes the index from the list: the frame gets
\* num_rows rows, their ConversationID being NaN.
generate_dates_and_times ==
    /\ pc = "dates"
    /\ IF Len(df) # params.num_rows /\ Len(df) > 0
       THEN /\ pc' = "misfit"
            /\ UNCHANGED df
       ELSE /\ \E random_days \in [1..params.num_rows -> 0..params.date_range_days] :
               \E times \in [1..params.num_rows -> time_objects] :
                 df' = [i \in 1..params.num_rows |->
                          [ConversationID |-> IF Len(df) = 0 THEN NaN
                                              ELSE df[i].ConversationID,
                           CallDate |-> random_days[i],
                           CallTime |-> random_days[i] * DayLen + times[i]]]
            /\ pc' = "queue"
    /\ UNCHANGED <<params, sudoku, lottery>>

\* TimeInQueue = rng.integers(0, 601); answered or abandoned by abn_rate.
generate_queue_and_status ==
    /\ pc = "queue"
    /\ \E q \in [1..Len(df) -> integers(0, QueueHigh)] :
       \E answered_mask \in [1..Len(df) -> BOOLEAN] :
         df' = [i \in 1..Len(df) |->
                  [ConversationID |-> df[i].ConversationID,
                   CallDate |-> df[i].CallDate,
                   CallTime |-> df[i].CallTime,
                   TimeInQueue |-> q[i],
                   answered |-> answered_mask[i]]]
    /\ pc' = "metrics"
    /\ UNCHANGED <<params, sudoku, lottery>>

\* a sorts before b by ['ConversationID', 'CallTime'], both ascending, NaN
\* last.
Before(a, b) ==
    \/ a.ConversationID # NaN /\ b.ConversationID = NaN
    \/ /\ a.ConversationID # NaN /\ b.ConversationID # NaN
       /\ a.ConversationID < b.ConversationID
    \/ a.ConversationID = b.ConversationID /\ a.CallTime < b.CallTime

RECURSIVE Insert(_, _)
\* row put into the sorted rows, after the rows it does not sort before.
Insert(sorted, row) ==
    IF sorted = <<>> THEN <<row>>
    ELSE LET last == sorted[Len(sorted)] IN
         IF Before(row, last)
         THEN Append(Insert(SubSeq(sorted, 1, Len(sorted) - 1), row), last)
         ELSE Append(sorted, row)

RECURSIVE sort_values(_)
\* df.sort_values(by=['ConversationID', 'CallTime'])
sort_values(rows) ==
    IF rows = <<>> THEN <<>>
    ELSE Insert(sort_values(SubSeq(rows, 1, Len(rows) - 1)), rows[Len(rows)])

\* TalkTime, HoldTime, WrapTime and their sum HandleTime for answered calls,
\* 0 for abandoned ones; then the frame is sorted.
generate_call_metrics ==
    /\ pc = "metrics"
    /\ LET df_answered == {i \in 1..Len(df) : df[i].answered} IN
       \E talk \in [df_answered -> integers(TalkLow, TalkHigh)] :
       \E hold \in [df_answered -> integers(0, HoldHigh)] :
       \E wrap \in [df_answered -> integers(WrapLow, WrapHigh)] :
         df' = sort_values(
                 [i \in 1..Len(df) |->
                    [ConversationID |-> df[i].ConversationID,
                     CallDate |-> df[i].CallDate,
                     CallTime |-> df[i].CallTime,
                     TimeInQueue |-> df[i].TimeInQueue,
                     answered |-> df[i].answered,
                     HandleTime |-> IF df[i].answered
                                    THEN talk[i] + hold[i] + wrap[i]
                                    ELSE 0]])
    /\ pc' = "adjust"
    /\ UNCHANGED <<params, sudoku, lottery>>

\* prev_call_start + Timedelta(prev_call_queue) + Timedelta(prev_call_handle)
new_call_start(prev) == prev.CallTime + prev.TimeInQueue + prev.HandleTime

RECURSIVE adjust_times_group(_, _)
\* The rows with rows 2..i adjusted in turn: a row whose predecessor belongs
\* to the same conversation starts when the predecessor, as adjusted, ends.
\* The frame is sorted, so a conversation's rows are adjacent.
adjust_times_group(rows, i) ==
    IF i <= 1 THEN rows
    ELSE LET done == adjust_times_group(rows, i - 1) IN
         IF done[i].ConversationID = done[i - 1].ConversationID
         THEN [done EXCEPT ![i].CallTime = new_call_start(done[i - 1])]
         ELSE done

\* rows[rows.ConversationID.notna()]
notna(row) == row.ConversationID # NaN

\* groupby('ConversationID').apply(_adjust_times_group), then
\* CallDate = CallTime.dt.date and CallTime = CallTime.dt.time. groupby
\* leaves out the rows whose key is NaN.
adjust_concurrent_call_times ==
    /\ pc = "adjust"
    /\ LET grouped == SelectSeq(df, notna)
           adjusted == adjust_times_group(grouped, Len(grouped)) IN
         df' = [i \in 1..Len(grouped) |->
                  [adjusted[i] EXCEPT !.CallDate = adjusted[i].CallTime \div DayLen,
                                      !.CallTime = adjusted[i].CallTime % DayLen]]
    /\ pc' = "frame"
    /\ UNCHANGED <<params, sudoku, lottery>>

NextTelephony ==
    \/ generate_conversation_ids
    \/ generate_dates_and_times
    \/ generate_queue_and_status
    \/ generate_call_metrics
    \/ adjust_concurrent_call_times

SpecTelephony == InitTelephony /\ [][NextTelephony]_vars

\* ---------------------------------------------------------------- Moneyball
\* cols = ['Ball 1', ..., 'Ball 6'], and drawn_count.head(6)
Balls == 6

\* The rows a draw history can hold: six different balls each.
Draws6 == {d \in SUBSET (1..MaxBall) : Cardinality(d) = Balls}

\* match_counts as initialised, and the order .items() yields its keys in.
tiers == <<"6 numbers matched", "5 Numbers matched",
           "4 Numbers matched", "3 Numbers matched">>

\* avg_prizes
avg_prizes ==
    ("6 Numbers matched" :> 3000000) @@ ("5 Numbers matched" :> 1750) @@
    ("4 Numbers matched" :> 140) @@ ("3 Numbers matched" :> 30)

\* avg_prizes.get(match_tier, 0)
get(d, key, default) == IF key \in DOMAIN d THEN d[key] ELSE default

\* results_df.stack().value_counts(): how often a number was drawn.
drawn_count(num) ==
    Cardinality({i \in 1..Len(results_df) : num \in results_df[i]})

\* The sets drawn_count.head(6) can be: six drawn numbers (all of them if
\* fewer were drawn) none of which was drawn less often than a number left
\* out; equal counts may come in either order.
head ==
    LET drawn == {num \in 1..MaxBall : drawn_count(num) > 0}
        size == IF Cardinality(drawn) < Balls THEN Cardinality(drawn) ELSE Balls
    IN  {t \in SUBSET drawn :
           /\ Cardinality(t) = size
           /\ \A a \in t : \A b \in drawn \ t : drawn_count(a) >= drawn_count(b)}

\* The script starts with the downloaded results loaded.
InitMoneyball ==
    /\ heap = EmptyRows
    /\ board = [r \in Idx |-> r + 1]
    /\ puzzle = NoGrid
    /\ all_coords = <<>>
    /\ cells_to_remove = 0
    /\ removed = 0
    /\ fg_board = [r \in Idx |-> r + 1]
    /\ stack = <<>>
    /\ mode = "idle"
    /\ result = FALSE
    /\ entry = NoGrid
    /\ writes = 0
    /\ query = <<>>
    /\ rng = Unseeded
    /\ numbers = NUMBERS
    /\ seed = Unseeded
    /\ run = 1
    /\ first = <<>>
    /\ others = 0
    /\ df = <<>>
    /\ params = <<>>
    /\ pc = "top"
    /\ \E n \in 0..MaxDraws : results_df \in [1..n -> Draws6]
    /\ top_numbers = {}
    /\ match_counts = [t \in {tiers[i] : i \in 1..Len(tiers)} |-> 0]
    /\ total_winnings = 0
    /\ index = 0

\* top_numbers = sorted(drawn_count.head(6).index.to_list())
find_top_numbers ==
    /\ pc = "top"
    /\ top_numbers' \in head
    /\ pc' = "match"
    /\ UNCHANGED <<results_df, match_counts, total_winnings, index, sudoku,
                   telephony>>

\* One iteration of `for index, row in results_df.iterrows()`.
match_row ==
    /\ pc = "match"
    /\ index < Len(results_df)
    /\ LET draw_numbers == results_df[index + 1]
           num_matches == Cardinality(draw_numbers \cap top_numbers)
       IN  match_counts' =
             IF num_matches = 6
             THEN [match_counts EXCEPT !["6 numbers matched"] = @ + 1]
             ELSE IF num_matches = 5
             THEN [match_counts EXCEPT !["5 Numbers matched"] = @ + 1]
             ELSE IF num_matches = 4
             THEN [match_counts EXCEPT !["4 Numbers matched"] = @ + 1]
             ELSE IF num_matches = 3
             THEN [match_counts EXCEPT !["3 Numbers matched"] = @ + 1]
             ELSE match_counts
    /\ index' = index + 1
    /\ UNCHANGED <<results_df, top_numbers, total_winnings, pc, sudoku,
                   telephony>>

\* The loop over the rows ends; total_winnings = 0 and the tier loop begins.
match_done ==
    /\ pc = "match"
    /\ index = Len(results_df)
    /\ total_winnings' = 0
    /\ index' = 0
    /\ pc' = "prizes"
    /\ UNCHANGED <<results_df, top_numbers, match_counts, sudoku, telephony>>

\* One iteration of `for match_tier, draws_count in match_counts.items()`.
tier_winnings ==
    /\ pc = "prizes"
    /\ index < Len(tiers)
    /\ LET match_tier == tiers[index + 1]
           draws_count == match_counts[match_tier]
           prize_value == get(avg_prizes, match_tier, 0)
       IN  total_winnings' = total_winnings + draws_count * prize_value
    /\ index' = index + 1
    /\ UNCHANGED <<results_df, top_numbers, match_counts, pc, sudoku,
                   telephony>>

\* estimated_returns['TOTAL winnings'] = total_winnings
tiers_done ==
    /\ pc = "prizes"
    /\ index = Len(tiers)
    /\ pc' = "shown"
    /\ UNCHANGED <<lottery, sudoku, telephony>>

NextMoneyball ==
    \/ find_top_numbers
    \/ match_row
    \/ match_done
    \/ tier_winnings
    \/ tiers_done

SpecMoneyball == InitMoneyball /\ [][NextMoneyball]_vars

\* ================================================================ properties
\* How often v occurs among the cells S of the grid g.
Count(g, S, v) == Cardinality({rc \in S : g[rc] = v})

RowCells(r) == {rc \in Cells : rc[1] = r}
ColCells(c) == {rc \in Cells : rc[2] = c}
BoxCells(br, bc) == {rc \in Cells : rc[1] \div Box = br /\ rc[2] \div Box = bc}
Units == {RowCells(r) : r \in Idx} \cup {ColCells(c) : c \in Idx}
            \cup {BoxCells(br, bc) : br \in 0..(Box - 1), bc \in 0..(Box - 1)}

\* No EMPTY cell, and every row, column and box holds each of 1..N once.
IsSolved(g) ==
    /\ \A rc \in Cells : g[rc] \in 1..N
    /\ \A U \in Units : \A v \in 1..N : Count(g, U, v) = 1

\* Some value occurs twice in a row, a column or a box.
Inconsistent(g) == \E U \in Units : \E v \in 1..N : Count(g, U, v) > 1

EmptyCount(g) == Count(g, Cells, 0)

Solution == Grid(heap, board)
Puzzle == Grid(heap, puzzle)
Searched == Grid(heap, fg_board)

\* C1: the solution grid that generate_sudoku builds with fill_grid from the
\* all-EMPTY grid is complete, and each row, column and box of it holds each
\* of 1..N exactly once, whatever the candidate orderings were.
GeneratedSolutionIsSolved ==
    ((pc = "generate" /\ Returned) \/ pc \in {"create", "returned"})
        => IsSolved(Solution)

GeneratedSolutionWitness ==
    pc = "returned" /\ IsSolved(Solution)

\* C2: for any start grid, when the outermost fill_grid returns True the grid
\* is complete and each row, column and box holds each of 1..N exactly once.
AnySuccessIsSolved ==
    (pc = "done" /\ result) => IsSolved(Searched)

InRow(g, r, v) == \E rc \in Cells : rc[1] = r /\ g[rc] = v
InCol(g, c, v) == \E rc \in Cells : rc[2] = c /\ g[rc] = v
InBoxOf(g, r, c, v) ==
    \E rc \in Cells :
        /\ rc[1] >= r - (r % Box) /\ rc[1] < r - (r % Box) + Box
        /\ rc[2] >= c - (c % Box) /\ rc[2] < c - (c % Box) + Box
        /\ g[rc] = v

\* C3: is_safe(grid, r, c, v) is False exactly when v occurs in row r, or in
\* column c, or in the box whose origin is (r - r mod Box, c - c mod Box).
IsSafeIffAbsent ==
    pc = "safe_done" =>
        (result = FALSE <=>
            (\/ InRow(Solution, query[1], query[3])
             \/ InCol(Solution, query[2], query[3])
             \/ InBoxOf(Solution, query[1], query[2], query[3])))

\* The box check alone decides: the value is in the box, not in the row or column.
IsSafeBoxOnlyWitness ==
    /\ pc = "safe_done"
    /\ result = FALSE
    /\ ~ InRow(Solution, query[1], query[3])
    /\ ~ InCol(Solution, query[2], query[3])
    /\ InBoxOf(Solution, query[1], query[2], query[3])

\* C4: for cells_to_remove in 0..N*N the returned puzzle has exactly
\* cells_to_remove EMPTY cells and N*N - cells_to_remove non-empty ones, and
\* each non-empty cell equals the solution's cell.
PuzzleHasExactlyNEmpty ==
    (pc = "returned" /\ writes = 0 /\ cells_to_remove \in 0..(N * N)) =>
        /\ EmptyCount(Puzzle) = cells_to_remove
        /\ Cardinality({rc \in Cells : Puzzle[rc] # 0}) = N * N - cells_to_remove
        /\ \A rc \in Cells : Puzzle[rc] # 0 => Puzzle[rc] = Solution[rc]

PuzzleHasExactlyNEmptyWitness ==
    /\ pc = "returned" /\ writes = 0
    /\ cells_to_remove > 1 /\ cells_to_remove < N * N
    /\ EmptyCount(Puzzle) = cells_to_remove

\* C5: the puzzle shares no row with the solution, and no step of
\* create_puzzle and no later write to the puzzle changes a solution cell.
PuzzleIsIndependent ==
    /\ [](puzzle # NoGrid =>
            {puzzle[r] : r \in Idx} \cap {board[r] : r \in Idx} = {})
    /\ [][(pc \in {"create", "returned"} \/ (pc = "generate" /\ Returned))
            => Solution' = Solution]_vars

\* The puzzle was written after it was returned and now holds a value the
\* solution does not.
PuzzleIsIndependentWitness ==
    /\ pc = "returned" /\ writes = 1
    /\ \E rc \in Cells : Puzzle[rc] # 0 /\ Puzzle[rc] # Solution[rc]

\* C6: fill_grid run on a generated puzzle returns True and leaves it solved.
PuzzleIsSolvable ==
    pc = "solved" => (result /\ IsSolved(Puzzle))

\* The puzzle was solved to a grid other than the solution it was cut from.
PuzzleIsSolvableWitness ==
    pc = "solved" /\ result /\ IsSolved(Puzzle) /\ Puzzle # Solution

\* C7: fill_grid started on a partially filled grid that is inconsistent
\* returns False from the outermost call.
InconsistentStartFails ==
    (pc = "done" /\ Inconsistent(entry) /\ EmptyCount(entry) > 0) => ~ result

\* C8: when a call of fill_grid, outermost or recursive, returns False the
\* grid equals, cell for cell, the grid at the moment the call began.
FailureRestoresGrid ==
    ((mode = "ret" \/ pc = "done") /\ ~ result) => Searched = entry

\* A recursive call, made after a placement, has just returned False.
FailureRestoresGridWitness ==
    mode = "ret" /\ ~ result /\ Len(stack) >= 2 /\ Searched = entry

\* C9: fill_grid started on the all-EMPTY grid returns True.
EmptyStartSucceeds ==
    (pc = "generate" /\ Returned) => result

EmptyStartSucceedsWitness ==
    pc = "generate" /\ Returned /\ result /\ EmptyCount(entry) = N * N

\* C10: every run of fill_grid returns, whatever the start grid and orderings.
FillTerminates == <>(pc = "done")

\* The search returned after it had to give up: it ended, and with False.
FillTerminatesWitness ==
    pc = "done" /\ ~ result /\ EmptyCount(entry) > 0

\* C11: with cells_to_remove = 0 the returned puzzle equals the solution cell
\* for cell.
ZeroRemovedEqualsSolution ==
    (pc = "returned" /\ writes = 0 /\ cells_to_remove = 0) => Puzzle = Solution

ZeroRemovedEqualsSolutionWitness ==
    /\ pc = "returned" /\ writes = 0 /\ cells_to_remove = 0
    /\ removed = 0
    /\ IsSolved(Puzzle)

\* C12: with cells_to_remove = N*N every cell of the returned puzzle is EMPTY
\* and every cell of the returned solution holds a value in 1..N.
AllRemovedIsEmpty ==
    (pc = "returned" /\ writes = 0 /\ cells_to_remove = N * N) =>
        /\ \A rc \in Cells : Puzzle[rc] = 0
        /\ \A rc \in Cells : Solution[rc] \in 1..N

AllRemovedIsEmptyWitness ==
    /\ pc = "returned" /\ writes = 0 /\ cells_to_remove = N * N
    /\ removed = N * N
    /\ all_coords = <<>>
    /\ EmptyCount(Puzzle) = N * N
    /\ EmptyCount(Solution) = 0

\* C13: with cells_to_remove above N*N create_puzzle raises nothing, pops no
\* coordinate from the exhausted list, and returns after exactly N*N cells
\* were cleared, as it does for N*N.
AboveMaxBehavesAsMax ==
    (cells_to_remove > N * N /\ pc \in {"create", "returned", "error"}) =>
        /\ pc # "error"
        /\ removed <= N * N
        /\ Len(all_coords) = N * N - removed
        /\ pc = "returned" /\ writes = 0 =>
               removed = N * N /\ EmptyCount(Puzzle) = N * N

AboveMaxBehavesAsMaxWitness ==
    /\ pc = "returned" /\ writes = 0 /\ cells_to_remove > N * N
    /\ removed = N * N
    /\ removed < cells_to_remove
    /\ all_coords = <<>>

\* C14: a cells_to_remove outside 0..N*N never makes create_puzzle fail: a
\* negative request clears nothing and returns the solution's values, a
\* request above N*N clears every cell.
OutOfRangeClamps ==
    (cells_to_remove \notin 0..(N * N)) =>
        /\ pc # "error"
        /\ (pc = "returned" /\ writes = 0) =>
               IF cells_to_remove < 0
               THEN removed = 0 /\ Puzzle = Solution
               ELSE EmptyCount(Puzzle) = N * N

OutOfRangeClampsWitness ==
    /\ pc = "returned" /\ writes = 0 /\ cells_to_remove < 0
    /\ removed = 0
    /\ Len(all_coords) = N * N
    /\ IsSolved(Puzzle)

\* C15: is_safe is a pure query: a call leaves every cell of the grid as it
\* was, whether the row, the column or the box check decides or none does.
IsSafeLeavesGrid ==
    [][pc = "safe" => (heap' = heap /\ board' = board /\ Solution' = Solution)]_vars

\* The column check alone decided a call on a grid with givens.
IsSafeLeavesGridWitness ==
    /\ pc = "safe_done"
    /\ result = FALSE
    /\ EmptyCount(Solution) = N * N - MaxGivens
    /\ InCol(Solution, query[2], query[3])
    /\ ~ InRow(Solution, query[1], query[3])
    /\ ~ InBoxOf(Solution, query[1], query[2], query[3])
    /\ Solution[<<query[1], query[2]>>] = 0

\* C16: on a complete valid grid, for every cell (r, c) holding v, once the
\* cell is set to EMPTY is_safe(grid, r, c, v) is True, and writing v back
\* gives the same valid grid.
ClearedCellIsSafe ==
    /\ pc = "valid" => IsSolved(Solution)
    /\ pc \in {"checked", "restored"} => result = TRUE
    /\ pc = "restored" => (Solution = entry /\ IsSolved(Solution))

ClearedCellIsSafeWitness ==
    /\ pc = "checked"
    /\ result = TRUE
    /\ EmptyCount(Solution) = 1
    /\ Solution[<<query[1], query[2]>>] = 0
    /\ entry[<<query[1], query[2]>>] = query[3]
    /\ query[1] >= Box /\ query[2] >= Box
    /\ IsSolved(entry)

\* C17: concurrent generate_sudoku invocations share no state, the random
\* source included, so a call that ran interleaved with another invocation
\* returns what it returns when run alone from the same seed.
InterleavedCallUnaffected ==
    (run = 2 /\ pc = "returned" /\ others > 0) =>
        first = <<Solution, Puzzle>>

\* C18: two generate_sudoku runs with the same cells_to_remove and the same
\* sequence of random outcomes return the same solution and the same puzzle.
SameSeedSameResult ==
    (run = 2 /\ pc = "returned") =>
        /\ Solution = first[1]
        /\ Puzzle = first[2]
        /\ numbers = NUMBERS

SameSeedSameResultWitness ==
    /\ run = 2 /\ pc = "returned"
    /\ rng # seed
    /\ IsSolved(first[1])
    /\ Puzzle = first[2]
    /\ EmptyCount(Puzzle) = Box
    /\ cells_to_remove = Box

\* C19: every row of the frame generate_data returns, second calls moved by
\* _adjust_times_group included, has its CallDate from start_date to end_date.
CallDateInRange ==
    pc = "frame" =>
        \A i \in 1..Len(df) :
            df[i].CallDate >= 0 /\ df[i].CallDate <= params.date_range_days

\* C20: in every two-call conversation of the returned frame the second call
\* starts strictly after the first call's start.
SecondCallIsLater ==
    pc = "frame" =>
        \A i \in 1..Len(df) : \A j \in 1..Len(df) :
            (i < j /\ df[i].ConversationID = df[j].ConversationID) =>
                df[j].CallDate * DayLen + df[j].CallTime >
                    df[i].CallDate * DayLen + df[i].CallTime

\* Position of a cell in row-major order.
RowMajor(rc) == rc[1] * N + rc[2]

\* The grid the outermost running (or just returned) fill_grid call began on.
Start ==
    IF stack # <<>> THEN stack[1].entry
    ELSE IF mode = "call" THEN Searched
    ELSE entry

\* C22: the cell a fill_grid call works on is the first EMPTY cell in
\* row-major order of the grid the call began on; a call began on a grid
\* without EMPTY cell, and only such a call, returns True at once and writes
\* no cell.
FirstEmptyIsChosen ==
    /\ [](\A i \in 1..Len(stack) :
            LET f == stack[i] IN
              /\ f.entry[<<f.row, f.col>>] = 0
              /\ \A rc \in Cells :
                    RowMajor(rc) < RowMajor(<<f.row, f.col>>) => f.entry[rc] # 0)
    /\ [][mode = "call" =>
            /\ (EmptyCount(Searched) = 0) <=> (mode' = "ret")
            /\ (EmptyCount(Searched) = 0) =>
                   (result' = TRUE /\ heap' = heap /\ stack' = stack)]_vars

\* The innermost call chose the last cell, placed a value, and the call made
\* on the complete grid returned True.
FirstEmptyIsChosenWitness ==
    /\ pc = "fill" /\ mode = "ret" /\ result = TRUE
    /\ Len(stack) = N * N
    /\ stack[1].row = 0 /\ stack[1].col = 0
    /\ stack[N + 1].row = 1 /\ stack[N + 1].col = 0
    /\ Top.row = N - 1 /\ Top.col = N - 1
    /\ EmptyCount(Searched) = 0

\* C23: once a fill_grid call has returned True, each enclosing call returns
\* True as its next step, testing no further candidate; from the moment the
\* grid is complete no cell is written or reset again.
FirstSuccessWins ==
    /\ [][(mode = "ret" /\ result = TRUE) =>
            /\ result' = TRUE
            /\ heap' = heap
            /\ mode' \in {"ret", "idle"}
            /\ stack # <<>> => stack' = Pop]_vars
    /\ [][EmptyCount(Searched) = 0 => Searched' = Searched]_vars

\* Success is on its way up from the innermost call of a search that began
\* on the all-EMPTY grid: two calls are still to return.
FirstSuccessWinsWitness ==
    /\ pc = "fill" /\ mode = "ret" /\ result = TRUE
    /\ Len(stack) = Box
    /\ EmptyCount(stack[1].entry) = N * N
    /\ Top.numbers_to_try # <<>>
    /\ EmptyCount(Searched) = 0

\* C24: when the recursive call made after a placement returns False, the
\* next step resets the chosen cell; so whenever a candidate is about to be
\* tested with is_safe the chosen cell is EMPTY and every cell after it in
\* row-major order is as it was when the testing call began.
RetractedBeforeNextCandidate ==
    /\ [][(mode = "ret" /\ result = FALSE /\ stack # <<>>) =>
            /\ mode' = "loop"
            /\ Cell(heap', fg_board', Top.row, Top.col) = 0
            /\ Top'.numbers_to_try = Top.numbers_to_try]_vars
    /\ [](mode = "loop" =>
            /\ Searched[<<Top.row, Top.col>>] = 0
            /\ \A rc \in Cells :
                  RowMajor(rc) > RowMajor(<<Top.row, Top.col>>) =>
                      Searched[rc] = Top.entry[rc])

\* A sibling candidate is about to be tested after a placement whose recursive
\* call failed.
RetractedBeforeNextCandidateWitness ==
    /\ pc = "fill" /\ mode = "loop"
    /\ Top.failed # {}
    /\ Top.numbers_to_try # <<>>
    /\ Searched[<<Top.row, Top.col>>] = 0
    /\ \E rc \in Cells : RowMajor(rc) > RowMajor(<<Top.row, Top.col>>)

\* The elements of a list, as a set.
Elements(lst) == {lst[i] : i \in 1..Len(lst)}

\* C25: the candidates of a fill_grid call are a permutation of 1..N, each
\* tested once; the call returns False only when all N have been tested, each
\* of them either rejected by is_safe or placed and followed by a recursive
\* call that returned False.
CandidatesExhaustedOnce ==
    /\ [][Len(stack') > Len(stack) =>
            /\ Len(Top'.numbers_to_try) = N
            /\ Elements(Top'.numbers_to_try) = 1..N]_vars
    /\ [](\A i \in 1..Len(stack) :
            LET f == stack[i] IN
              /\ f.rejected \cap f.failed = {}
              /\ Elements(f.numbers_to_try) \cap (f.rejected \cup f.failed) = {}
              /\ Cardinality(Elements(f.numbers_to_try)) = Len(f.numbers_to_try)
              /\ (Elements(f.numbers_to_try) \cup f.rejected \cup f.failed
                    \cup {Searched[<<f.row, f.col>>]}) \ {0} = 1..N)
    /\ [][(mode = "loop" /\ mode' = "ret") =>
            /\ result' = FALSE
            /\ Top.numbers_to_try = <<>>
            /\ Top.rejected \cup Top.failed = 1..N
            /\ \A v \in Top.rejected :
                  ~ is_safe(heap, fg_board, Top.row, Top.col, v)
            /\ \A v \in Top.failed :
                  is_safe(heap, fg_board, Top.row, Top.col, v)]_vars

\* A call is about to return False: some candidates were rejected, others
\* were placed and their recursive calls failed.
CandidatesExhaustedOnceWitness ==
    /\ pc = "fill" /\ mode = "loop"
    /\ Top.numbers_to_try = <<>>
    /\ Top.rejected # {}
    /\ Top.failed # {}
    /\ Cardinality(Top.rejected) + Cardinality(Top.failed) = N

\* C26: a search that began on a grid without a repeated value in any row,
\* column or box never has one, after any placement or retraction; a value
\* is written only where is_safe was true on the grid just before the write.
SearchStaysConsistent ==
    /\ [](~ Inconsistent(Start) => ~ Inconsistent(Searched))
    /\ [][\A rc \in Cells :
            (Searched'[rc] # Searched[rc] /\ Searched'[rc] # 0) =>
                /\ Searched[rc] = 0
                /\ is_safe(heap, fg_board, rc[1], rc[2], Searched'[rc])]_vars

\* Two values have been placed in a consistent grid that began with givens
\* and MaxFree EMPTY cells.
SearchStaysConsistentWitness ==
    /\ pc = "fill" /\ mode = "call"
    /\ Len(stack) = Box
    /\ ~ Inconsistent(Start)
    /\ EmptyCount(Start) = MaxFree
    /\ EmptyCount(Searched) = MaxFree - Box

\* C27: every cell that is not EMPTY when the outermost fill_grid call begins
\* holds the same value in every state of the search and after the return,
\* True or False; only cells EMPTY at the start are written or reset.
GivensAreKept ==
    /\ [](\A rc \in Cells : Start[rc] # 0 => Searched[rc] = Start[rc])
    /\ [][\A rc \in Cells : Searched'[rc] # Searched[rc] => Start[rc] = 0]_vars

\* A recursive call has returned False, with its placements undone, in a
\* search that began with givens around its EMPTY cells.
GivensAreKeptWitness ==
    /\ pc = "fill" /\ mode = "ret" /\ result = FALSE
    /\ Len(stack) = Box
    /\ Start[<<N - 1, N - 1>>] # 0
    /\ EmptyCount(Start) = MaxFree - 1
    /\ EmptyCount(Searched) = MaxFree - 1 - Box

\* fill_grid calls begun and not yet returned; the outermost has depth 0.
ActiveCalls == Len(stack) + (IF mode = "call" THEN 1 ELSE 0)
Depth == ActiveCalls - 1

\* The cells EMPTY at the start that hold a value now.
Filled == {rc \in Cells : Start[rc] = 0 /\ Searched[rc] # 0}

\* No cell EMPTY at the start is EMPTY now while a later one is filled.
FilledIsPrefix ==
    \A a \in Filled : \A b \in Cells :
        (Start[b] = 0 /\ RowMajor(b) < RowMajor(a)) => b \in Filled

\* C28 as stated: at every point while a fill_grid call is active the filled
\* initially-EMPTY cells are a row-major prefix of the initially-EMPTY cells
\* and their number is the current recursion depth.
PrefixAndDepthAlways ==
    (pc = "fill" /\ ActiveCalls >= 1) =>
        (FilledIsPrefix /\ Cardinality(Filled) = Depth)

\* C28: the filled initially-EMPTY cells are always a row-major prefix of the
\* initially-EMPTY cells; their number is the depth of the running call
\* whenever a call begins and whenever a candidate is about to be tested.
PrefixAndDepthAtTests ==
    /\ FilledIsPrefix
    /\ (pc = "fill" /\ mode \in {"call", "loop"}) => Cardinality(Filled) = Depth

\* A candidate is about to be tested two calls below the outermost one.
PrefixAndDepthAtTestsWitness ==
    /\ pc = "fill" /\ mode = "loop"
    /\ Depth = Box
    /\ Cardinality(Filled) = Box
    /\ EmptyCount(Start) = N * N
    /\ Top.rejected # {}

\* How many rows of the frame carry the ConversationID of row i.
Occurrences(i) ==
    Cardinality({j \in 1..Len(df) : df[j].ConversationID = df[i].ConversationID})

\* The rows whose ConversationID occurs once.
SingleCallRows == {i \in 1..Len(df) : Occurrences(i) = 1}

\* C21: in the frame generate_data returns, the rows whose ConversationID
\* occurs exactly once number int(num_rows * fcr_rate), and every other row
\* belongs to a conversation of exactly two rows.
SingleCallShare ==
    pc = "frame" =>
        /\ Cardinality(SingleCallRows) = (params.num_rows * params.fcr) \div FcrDen
        /\ \A i \in 1..Len(df) : i \notin SingleCallRows => Occurrences(i) = 2

\* A returned frame with a single-call row and a two-call conversation.
SingleCallShareWitness ==
    /\ pc = "frame"
    /\ Len(df) = MaxRows
    /\ Cardinality(SingleCallRows) = 1
    /\ \E i \in 1..Len(df) : Occurrences(i) = 2
    /\ params.fcr = 1

\* C29: for every num_rows and fcr_rate _generate_conversation_ids makes
\* exactly num_rows ids, every later column fits, and generate_data returns a
\* frame of num_rows rows.
IdsFitNumRows ==
    /\ pc = "dates" => Len(df) = params.num_rows
    /\ pc # "misfit"
    /\ pc = "frame" => Len(df) = params.num_rows

\* Draws that share exactly k numbers with top_numbers.
DrawsMatching(k) ==
    Cardinality({i \in 1..Len(results_df) :
                   Cardinality(results_df[i] \cap top_numbers) = k})

\* C30: total_winnings is the sum, over 3, 4, 5 and 6 matching numbers, of
\* the draws matching exactly that many of the top six numbers times the
\* tier's average prize (30, 140, 1750, 3000000).
WinningsAreTierSum ==
    pc = "shown" =>
        total_winnings = DrawsMatching(3) * 30 + DrawsMatching(4) * 140
                           + DrawsMatching(5) * 1750 + DrawsMatching(6) * 3000000

====
